---- MODULE Spec2Model ----
(***************************************************************************)
(* Model of the todo backend: the HTTP handlers (internal/server/routes.go),*)
(* the service layer (internal/service/todo_service.go) and the GORM        *)
(* repository (internal/repository/todo_repository.go) over the todos       *)
(* table.  A request is handled by one worker; the only suspension points   *)
(* of a request are its repository calls, so a handler is one step per      *)
(* repository call it makes (UpdateTodo: load, then save; DeleteTodo:       *)
(* existence check, then delete).                                           *)
(***************************************************************************)
EXTENDS Integers, Sequences, FiniteSets, TLC

\* ------------------------------------------------------------------ bounds
\* Number of writes (create / save / delete) a behaviour may perform; every
\* write advances the store clock by one tick.
MaxClock == 3
\* Clock ticks per second: timestamps are rendered with second resolution.
TicksPerSecond == 2

\* Concurrent request handlers (goroutines serving requests).
Workers == {1, 2}

\* ----------------------------------------------------------- HTTP statuses
StatusOK == 200
StatusCreated == 201
StatusNoContent == 204
StatusBadRequest == 400
StatusNotFound == 404
StatusInternalServerError == 500

\* ------------------------------------------------------------------ strings
\* A string is a sequence of one-character strings.
Whitespace == {" "}
Digits == {"0", "1", "2", "3", "4", "5", "6", "7", "8", "9"}

DigitVal(c) ==
  CASE c = "0" -> 0 [] c = "1" -> 1 [] c = "2" -> 2 [] c = "3" -> 3
    [] c = "4" -> 4 [] c = "5" -> 5 [] c = "6" -> 6 [] c = "7" -> 7
    [] c = "8" -> 8 [] c = "9" -> 9

\* A title made of whitespace only (the empty title included).
IsBlank(s) == \A i \in DOMAIN s : s[i] \in Whitespace

RECURSIVE DecimalValue(_)
DecimalValue(s) ==
  IF s = <<>> THEN 0
  ELSE 10 * DecimalValue(SubSeq(s, 1, Len(s) - 1)) + DigitVal(s[Len(s)])

\* strconv.ParseUint(s, 10, 64): digits only, no sign, not empty.
ParseUint(s) ==
  IF s = <<>> \/ (\E i \in DOMAIN s : s[i] \notin Digits)
  THEN [err |-> TRUE, v |-> 0]
  ELSE [err |-> FALSE, v |-> DecimalValue(s)]

\* An error message is a sequence of fragments; strings.Contains looks for
\* one fragment.
Contains(msg, frag) == \E i \in DOMAIN msg : msg[i] = frag

NoError == <<>>

\* --------------------------------------------------------------- the entity
\* domain.Todo (gorm.Model: ID, CreatedAt, UpdatedAt, DeletedAt; DeletedAt 0
\* is NULL, a live row).
Todo(id, title, completed, userID, createdAt, updatedAt, deletedAt) ==
  [ID |-> id, Title |-> title, Completed |-> completed, UserID |-> userID,
   CreatedAt |-> createdAt, UpdatedAt |-> updatedAt, DeletedAt |-> deletedAt]

NoTodo == Todo(0, <<>>, FALSE, 0, 0, 0, 0)

\* time.Time.Format(time.RFC3339): second resolution.
FormatRFC3339(t) == t \div TicksPerSecond

\* TodoResponse built from an entity.
TodoResponse(todo) ==
  [ID |-> todo.ID, Title |-> todo.Title, Completed |-> todo.Completed,
   UserID |-> todo.UserID, CreatedAt |-> FormatRFC3339(todo.CreatedAt),
   UpdatedAt |-> FormatRFC3339(todo.UpdatedAt)]

NoResponse == TodoResponse(NoTodo)

\* ------------------------------------------------------------ the repository
\* The todos table is a function from primary key to row; a soft-deleted row
\* stays in the table with DeletedAt set.
Live(t, id) == id \in DOMAIN t /\ t[id].DeletedAt = 0

LiveIDs(t) == {id \in DOMAIN t : t[id].DeletedAt = 0}

MaxOf(S) == IF S = {} THEN 0 ELSE CHOOSE x \in S : \A y \in S : y <= x

\* The primary key the table's sequence hands out on insert.
NextID_Reuse(t) == Cardinality(LiveIDs(t)) + 1

NextID(t) == MaxOf(DOMAIN t) + 1

\* Outcome of a repository call: err is "none", "notfound"
\* (gorm.ErrRecordNotFound), "conflict" (a duplicate primary key) or "store"
\* (the store cannot be reached or fails otherwise).
RepoResult(err, todo, t, clk) == [err |-> err, todo |-> todo, todos |-> t, now |-> clk]

\* gormTodoRepository.Create: db.Create(todo).
repoCreate(t, clk, todo, fault) ==
  IF fault THEN RepoResult("store", todo, t, clk)
  ELSE LET id == NextID(t)
           row == [todo EXCEPT !.ID = id, !.CreatedAt = clk + 1,
                               !.UpdatedAt = clk + 1, !.DeletedAt = 0]
       IN RepoResult("none", row, (id :> row) @@ t, clk + 1)

\* gormTodoRepository.FindByID: db.First(&todo, id), live rows only.
repoFindByID_Unscoped(t, clk, id, fault) ==
  IF fault THEN RepoResult("store", NoTodo, t, clk)
  ELSE IF id \in DOMAIN t THEN RepoResult("none", t[id], t, clk)
  ELSE RepoResult("notfound", NoTodo, t, clk)

repoFindByID(t, clk, id, fault) ==
  IF fault THEN RepoResult("store", NoTodo, t, clk)
  ELSE IF Live(t, id) THEN RepoResult("none", t[id], t, clk)
  ELSE RepoResult("notfound", NoTodo, t, clk)

\* gormTodoRepository.GetAll: db.Find(&todos), live rows only.
repoGetAll(t, clk, fault) ==
  IF fault THEN [err |-> "store", list |-> {}]
  ELSE [err |-> "none", list |-> {t[id] : id \in LiveIDs(t)}]

\* gormTodoRepository.Update: db.Save(todo).  Save writes every field of the
\* entity to the live row with its primary key.  When no live row matches
\* (the row was soft-deleted since it was loaded) Save falls back to an
\* insert: depending on the GORM release this is an upsert on the primary
\* key, which overwrites the soft-deleted row with the entity (DeletedAt
\* NULL again), or a plain insert, which fails on the duplicate key.  Save
\* never reports gorm.ErrRecordNotFound.
repoUpdate_NoTitle(t, clk, todo, fault, upsert) ==
  IF fault THEN RepoResult("store", todo, t, clk)
  ELSE LET row == [todo EXCEPT !.UpdatedAt = clk + 1]
       IN IF Live(t, todo.ID)
          THEN RepoResult("none", row,
                 [t EXCEPT ![todo.ID] = [row EXCEPT !.Title = t[todo.ID].Title]], clk + 1)
          ELSE IF upsert
               THEN RepoResult("none", row, (todo.ID :> row) @@ t, clk + 1)
               ELSE RepoResult("conflict", todo, t, clk)

repoUpdate(t, clk, todo, fault, upsert) ==
  IF fault THEN RepoResult("store", todo, t, clk)
  ELSE LET row == [todo EXCEPT !.UpdatedAt = clk + 1]
       IN IF Live(t, todo.ID)
          THEN RepoResult("none", row, [t EXCEPT ![todo.ID] = row], clk + 1)
          ELSE IF upsert
               THEN RepoResult("none", row, (todo.ID :> row) @@ t, clk + 1)
               ELSE RepoResult("conflict", todo, t, clk)

\* gormTodoRepository.Delete: db.Delete(&domain.Todo{}, id), a soft delete;
\* no error when no live row matches.
repoDelete(t, clk, id, fault) ==
  IF fault THEN RepoResult("store", NoTodo, t, clk)
  ELSE IF Live(t, id)
       THEN RepoResult("none", NoTodo, [t EXCEPT ![id].DeletedAt = clk + 1], clk + 1)
       ELSE RepoResult("none", NoTodo, t, clk)

\* ------------------------------------------------------- transfer contracts
\* CreateTodoRequest{Title, UserID}.
CreateTodoRequest(title, userID) == [Title |-> title, UserID |-> userID]

\* A pointer field of UpdateTodoRequest: nil (absent) or a value.
Absent == [present |-> FALSE, s |-> <<>>, b |-> FALSE]
PresentTitle(s) == [present |-> TRUE, s |-> s, b |-> FALSE]
PresentBool(b) == [present |-> TRUE, s |-> <<>>, b |-> b]

\* UpdateTodoRequest{Title *string, Completed *bool}.
UpdateTodoRequest(title, completed) == [Title |-> title, Completed |-> completed]

NoUpdate == UpdateTodoRequest(Absent, Absent)

\* ----------------------------------------------------- JSON request bodies
\* A JSON value of a body: its type and its text.
JString(s) == [t |-> "string", s |-> s, b |-> FALSE, n |-> 0]
JBool(b) == [t |-> "bool", s |-> <<>>, b |-> b, n |-> 0]
JNumber(n) == [t |-> "number", s |-> <<>>, b |-> FALSE, n |-> n]
JNull == [t |-> "null", s |-> <<>>, b |-> FALSE, n |-> 0]

Member(key, val) == [key |-> key, val |-> val]

\* A request body: a JSON object (its members in order), or a body that is
\* empty ("eof"), cut short ("trunc"), not well-formed ("syntax"), or a
\* well-formed value that is no object ("scalar").
Object(members) == [kind |-> "object", members |-> members]
Malformed(kind) == [kind |-> kind, members |-> <<>>]

\* What json.Decoder.Decode returns: kind "none" is a nil error.
DecodeError(kind, field, offset) == [kind |-> kind, field |-> field, offset |-> offset]
DecodeOK == DecodeError("none", "", 0)

\* The decoder keeps the first error it saved (d.saveError).
SaveError(old, new) == IF old.kind = "none" THEN new ELSE old

BodyError(body) ==
  CASE body.kind = "syntax" -> DecodeError("syntax", "", 1)
    [] body.kind = "trunc" -> DecodeError("unexpectedEOF", "", 0)
    [] body.kind = "eof" -> DecodeError("EOF", "", 0)
    [] body.kind = "scalar" -> DecodeError("type", "", 1)
    [] OTHER -> DecodeOK

\* Decode into CreateTodoRequest with DisallowUnknownFields.
RECURSIVE DecodeCreateMembers(_, _, _)
DecodeCreateMembers(members, i, acc) ==
  IF i > Len(members) THEN acc
  ELSE LET m == members[i]
           typeErr == DecodeError("type", m.key, i)
           next ==
             CASE m.key = "title" ->
                    IF m.val.t = "string"
                    THEN [acc EXCEPT !.req.Title = m.val.s]
                    ELSE IF m.val.t = "null" THEN acc
                    ELSE [acc EXCEPT !.err = SaveError(acc.err, typeErr)]
               [] m.key = "user_id" ->
                    IF m.val.t = "number"
                    THEN [acc EXCEPT !.req.UserID = m.val.n]
                    ELSE IF m.val.t = "null" THEN acc
                    ELSE [acc EXCEPT !.err = SaveError(acc.err, typeErr)]
               [] OTHER ->
                    [acc EXCEPT !.err = SaveError(acc.err, DecodeError("unknown", m.key, i))]
       IN DecodeCreateMembers(members, i + 1, next)

DecodeCreate(body) ==
  IF body.kind # "object"
  THEN [err |-> BodyError(body), req |-> CreateTodoRequest(<<>>, 0)]
  ELSE DecodeCreateMembers(body.members, 1,
         [err |-> DecodeOK, req |-> CreateTodoRequest(<<>>, 0)])

\* Decode into UpdateTodoRequest with DisallowUnknownFields.
RECURSIVE DecodeUpdateMembers(_, _, _, _)
DecodeUpdateMembers(members, i, acc, disallowUnknown) ==
  IF i > Len(members) THEN acc
  ELSE LET m == members[i]
           typeErr == DecodeError("type", m.key, i)
           next ==
             CASE m.key = "title" ->
                    IF m.val.t = "string"
                    THEN [acc EXCEPT !.req.Title = PresentTitle(m.val.s)]
                    ELSE IF m.val.t = "null" THEN [acc EXCEPT !.req.Title = Absent]
                    ELSE [acc EXCEPT !.err = SaveError(acc.err, typeErr)]
               [] m.key = "completed" ->
                    IF m.val.t = "bool"
                    THEN [acc EXCEPT !.req.Completed = PresentBool(m.val.b)]
                    ELSE IF m.val.t = "null" THEN [acc EXCEPT !.req.Completed = Absent]
                    ELSE [acc EXCEPT !.err = SaveError(acc.err, typeErr)]
               [] OTHER ->
                    IF disallowUnknown
                    THEN [acc EXCEPT !.err = SaveError(acc.err, DecodeError("unknown", m.key, i))]
                    ELSE acc
       IN DecodeUpdateMembers(members, i + 1, next, disallowUnknown)

DecodeUpdate_AllowUnknown(body) ==
  IF body.kind # "object"
  THEN [err |-> BodyError(body), req |-> NoUpdate]
  ELSE DecodeUpdateMembers(body.members, 1, [err |-> DecodeOK, req |-> NoUpdate], FALSE)

DecodeUpdate(body) ==
  IF body.kind # "object"
  THEN [err |-> BodyError(body), req |-> NoUpdate]
  ELSE DecodeUpdateMembers(body.members, 1, [err |-> DecodeOK, req |-> NoUpdate], TRUE)

\* ------------------------------------------------------------ service layer
\* The error values of the service, as their messages.
ErrTitleEmpty == <<"title cannot be empty">>
ErrCreateFailed == <<"failed to create todo item">>
ErrGetNotFound(id) == <<"todo with ID", ToString(id), "not found">>
ErrGetFailed == <<"failed to retrieve todo item">>
ErrListFailed == <<"failed to retrieve todo items">>
ErrUpdateNotFound(id) == <<"todo with ID", ToString(id), "not found", "for update">>
ErrUpdateLoadFailed == <<"failed to retrieve todo item for update">>
ErrUpdateFailed == <<"failed to update todo item">>
ErrDeleteNotFound(id) == <<"todo with ID", ToString(id), "not found", "for deletion">>
ErrDeleteCheckFailed == <<"failed to check todo item before deletion">>
ErrDeleteFailed == <<"failed to delete todo item">>

\* What a service call returns, with the store it leaves, the repository
\* calls it made and the repository error it met ("none" when it met none).
SvcResult(err, out, r, calls) ==
  [err |-> err, out |-> out, todos |-> r.todos, now |-> r.now,
   repoErr |-> r.err, calls |-> calls]

\* CreateTodo's validation: req.Title == "".
TitleMissing_Never(req) == FALSE

TitleMissing(req) == req.Title = <<>>

\* CreateTodo's new entity.
NewTodo(req) == Todo(0, req.Title, FALSE, req.UserID, 0, 0, 0)

\* todoService.CreateTodo.
CreateTodo_ValidateAfterCreate(t, clk, req, fault) ==
  LET r == repoCreate(t, clk, NewTodo(req), fault)
  IN IF r.err # "none"
     THEN SvcResult(ErrCreateFailed, NoResponse, r, <<"Create">>)
     ELSE IF TitleMissing(req)
          THEN SvcResult(ErrTitleEmpty, NoResponse, r, <<"Create">>)
          ELSE SvcResult(NoError, TodoResponse(r.todo), r, <<"Create">>)

CreateTodo(t, clk, req, fault) ==
  IF TitleMissing(req)
  THEN SvcResult(ErrTitleEmpty, NoResponse, RepoResult("none", NoTodo, t, clk), <<>>)
  ELSE LET r == repoCreate(t, clk, NewTodo(req), fault)
       IN IF r.err # "none"
          THEN SvcResult(ErrCreateFailed, NoResponse, r, <<"Create">>)
          ELSE SvcResult(NoError, TodoResponse(r.todo), r, <<"Create">>)

\* todoService.GetTodoByID.
GetTodoByID_NotFoundAsFailure(t, clk, id, fault) ==
  LET r == repoFindByID(t, clk, id, fault)
  IN IF r.err # "none"
     THEN SvcResult(ErrGetFailed, NoResponse, r, <<"FindByID">>)
     ELSE SvcResult(NoError, TodoResponse(r.todo), r, <<"FindByID">>)

GetTodoByID(t, clk, id, fault) ==
  LET r == repoFindByID(t, clk, id, fault)
  IN IF r.err # "none"
     THEN IF r.err = "notfound"
          THEN SvcResult(ErrGetNotFound(id), NoResponse, r, <<"FindByID">>)
          ELSE SvcResult(ErrGetFailed, NoResponse, r, <<"FindByID">>)
     ELSE SvcResult(NoError, TodoResponse(r.todo), r, <<"FindByID">>)

\* todoService.GetAllTodos.
GetAllTodos(t, clk, fault) ==
  LET r == repoGetAll(t, clk, fault)
  IN IF r.err # "none"
     THEN [err |-> ErrListFailed, list |-> {}, repoErr |-> r.err, calls |-> <<"GetAll">>]
     ELSE [err |-> NoError, list |-> {TodoResponse(todo) : todo \in r.list},
           repoErr |-> r.err, calls |-> <<"GetAll">>]

\* UpdateTodo, step 2: apply the present fields that differ.
Reconcile_ZeroIsAbsent(existing, req) ==
  LET t1 == IF req.Title.present /\ req.Title.s # <<>> /\ req.Title.s # existing.Title
            THEN [existing EXCEPT !.Title = req.Title.s] ELSE existing
      t2 == IF req.Completed.present /\ req.Completed.b /\ req.Completed.b # t1.Completed
            THEN [t1 EXCEPT !.Completed = req.Completed.b] ELSE t1
  IN [todo |-> t2, updated |-> t2 # existing]

Reconcile_AlwaysUpdated(existing, req) ==
  LET t1 == IF req.Title.present /\ req.Title.s # <<>> /\ req.Title.s # existing.Title
            THEN [existing EXCEPT !.Title = req.Title.s] ELSE existing
      t2 == IF req.Completed.present /\ req.Completed.b # t1.Completed
            THEN [t1 EXCEPT !.Completed = req.Completed.b] ELSE t1
  IN [todo |-> t2, updated |-> TRUE]

Reconcile_EmptyTitleApplied(existing, req) ==
  LET titleChanged == req.Title.present /\ req.Title.s # existing.Title
      t1 == IF titleChanged THEN [existing EXCEPT !.Title = req.Title.s] ELSE existing
      completedChanged == req.Completed.present /\ req.Completed.b # t1.Completed
      t2 == IF completedChanged THEN [t1 EXCEPT !.Completed = req.Completed.b] ELSE t1
  IN [todo |-> t2, updated |-> titleChanged \/ completedChanged]

Reconcile(existing, req) ==
  LET titleChanged == req.Title.present /\ req.Title.s # <<>>
                        /\ req.Title.s # existing.Title
      t1 == IF titleChanged THEN [existing EXCEPT !.Title = req.Title.s] ELSE existing
      completedChanged == req.Completed.present /\ req.Completed.b # t1.Completed
      t2 == IF completedChanged THEN [t1 EXCEPT !.Completed = req.Completed.b] ELSE t1
  IN [todo |-> t2, updated |-> titleChanged \/ completedChanged]

\* todoService.UpdateTodo up to its save: load, reconcile, and the early
\* return when nothing changed.  "todo" is the reconciled entity to save.
UpdateTodoLoad(t, clk, id, req, fault) ==
  LET r == repoFindByID(t, clk, id, fault)
      rec == Reconcile(r.todo, req)
      base == SvcResult(NoError, NoResponse, r, <<"FindByID">>)
  IN IF r.err # "none"
     THEN [base EXCEPT !.err = IF r.err = "notfound" THEN ErrUpdateNotFound(id)
                                ELSE ErrUpdateLoadFailed]
            @@ [todo |-> NoTodo, updated |-> FALSE]
     ELSE [base EXCEPT !.out = IF rec.updated THEN NoResponse ELSE TodoResponse(rec.todo)]
            @@ [todo |-> rec.todo, updated |-> rec.updated]

\* todoService.UpdateTodo from its save on.
UpdateTodoSave(t, clk, todo, fault, upsert) ==
  LET r == repoUpdate(t, clk, todo, fault, upsert)
  IN IF r.err # "none"
     THEN SvcResult(ErrUpdateFailed, NoResponse, r, <<"FindByID", "Update">>)
     ELSE SvcResult(NoError, TodoResponse(r.todo), r, <<"FindByID", "Update">>)

\* todoService.DeleteTodo up to its delete: the existence check.
DeleteTodoCheck_Unchecked(t, clk, id, fault) ==
  LET r == repoFindByID(t, clk, id, fault)
  IN IF r.err = "store"
     THEN SvcResult(ErrDeleteCheckFailed, NoResponse, r, <<"FindByID">>)
     ELSE SvcResult(NoError, NoResponse, [r EXCEPT !.err = "none"], <<"FindByID">>)

DeleteTodoCheck(t, clk, id, fault) ==
  LET r == repoFindByID(t, clk, id, fault)
  IN IF r.err # "none"
     THEN SvcResult(IF r.err = "notfound" THEN ErrDeleteNotFound(id)
                    ELSE ErrDeleteCheckFailed, NoResponse, r, <<"FindByID">>)
     ELSE SvcResult(NoError, NoResponse, r, <<"FindByID">>)

\* todoService.DeleteTodo from its delete on.
DeleteTodoDelete(t, clk, id, fault) ==
  LET r == repoDelete(t, clk, id, fault)
  IN IF r.err # "none"
     THEN SvcResult(ErrDeleteFailed, NoResponse, r, <<"FindByID", "Delete">>)
     ELSE SvcResult(NoError, NoResponse, r, <<"FindByID", "Delete">>)

\* --------------------------------------------------------- transport adapter
MsgInvalidID == <<"Invalid todo ID provided">>
MsgInvalidBody == <<"Invalid request body">>
MsgCreateFailed == <<"Failed to create todo">>
MsgListFailed == <<"Failed to retrieve todos">>
MsgGetFailed == <<"Failed to retrieve todo">>
MsgUpdateFailed == <<"Failed to update todo">>
MsgDeleteFailed == <<"Failed to delete todo">>

\* What a handler has done when it answers (or suspends): the response
\* (status, error message, body), the service operation it invoked ("none"
\* when it invoked none) with the error that returned, the repository calls
\* made and the repository error met, and the store it leaves.
Outcome(status, msg, svc, res) ==
  [status |-> status, msg |-> msg, out |-> res.out, list |-> {}, svc |-> svc,
   svcErr |-> res.err, repoErr |-> res.repoErr, calls |-> res.calls,
   todos |-> res.todos, now |-> res.now]

\* A handler that answers without invoking the service.
Rejected(status, msg, t, clk) ==
  Outcome(status, msg, "none",
          SvcResult(NoError, NoResponse, RepoResult("none", NoTodo, t, clk), <<>>))

\* The path parameter {id}: strconv.ParseUint, and id == 0 is refused.
PathID_ZeroAllowed(path) ==
  LET p == ParseUint(path) IN [ok |-> ~p.err, id |-> p.v]

PathID(path) ==
  LET p == ParseUint(path) IN [ok |-> ~p.err /\ p.v # 0, id |-> p.v]

\* createTodoHandler's answer to a decode error.
createDecodeResponse(err) ==
  CASE err.kind = "syntax" ->
         [status |-> StatusBadRequest,
          msg |-> <<"Request body contains badly-formed JSON (at position",
                    ToString(err.offset), ")">>]
    [] err.kind = "unexpectedEOF" ->
         [status |-> StatusBadRequest,
          msg |-> <<"Request body contains badly-formed JSON">>]
    [] err.kind = "type" ->
         [status |-> StatusBadRequest,
          msg |-> <<"Request body contains an invalid value for the", err.field,
                    "field (at position", ToString(err.offset), ")">>]
    [] err.kind = "unknown" ->
         [status |-> StatusBadRequest,
          msg |-> <<"Request body contains unknown field", err.field>>]
    [] err.kind = "EOF" ->
         [status |-> StatusBadRequest, msg |-> <<"Request body must not be empty">>]
    [] OTHER ->
         [status |-> StatusInternalServerError, msg |-> <<"Error processing request">>]

\* updateTodoHandler's answer to a decode error.
updateDecodeResponse(err) == [status |-> StatusBadRequest, msg |-> MsgInvalidBody]

\* createTodoHandler's answer to a service error.
createErrorResponse(err) ==
  IF err = ErrTitleEmpty
  THEN [status |-> StatusBadRequest, msg |-> err]
  ELSE [status |-> StatusInternalServerError, msg |-> MsgCreateFailed]

\* The answer of the {id} handlers to a service error.
idErrorResponse(err, failed) ==
  IF Contains(err, "not found")
  THEN [status |-> StatusNotFound, msg |-> err]
  ELSE [status |-> StatusInternalServerError, msg |-> failed]

\* createTodoHandler (POST /todos).
createTodoHandler(t, clk, body, fault) ==
  LET d == DecodeCreate(body)
      res == CreateTodo(t, clk, d.req, fault)
  IN IF d.err.kind # "none"
     THEN LET a == createDecodeResponse(d.err) IN Rejected(a.status, a.msg, t, clk)
     ELSE IF res.err # NoError
          THEN LET a == createErrorResponse(res.err)
               IN Outcome(a.status, a.msg, "CreateTodo", res)
          ELSE Outcome(StatusCreated, NoError, "CreateTodo", res)

\* getAllTodosHandler (GET /todos).
getAllTodosHandler(t, clk, fault) ==
  LET res == GetAllTodos(t, clk, fault)
      base == Rejected(StatusOK, NoError, t, clk)
  IN [base EXCEPT !.status = IF res.err # NoError THEN StatusInternalServerError
                             ELSE StatusOK,
                  !.msg = IF res.err # NoError THEN MsgListFailed ELSE NoError,
                  !.list = res.list, !.svc = "GetAllTodos", !.svcErr = res.err,
                  !.repoErr = res.repoErr, !.calls = res.calls]

\* getTodoByIDHandler (GET /todos/{id}).
getTodoByIDHandler(t, clk, path, fault) ==
  LET p == PathID(path)
      res == GetTodoByID(t, clk, p.id, fault)
  IN IF ~p.ok THEN Rejected(StatusBadRequest, MsgInvalidID, t, clk)
     ELSE IF res.err # NoError
          THEN LET a == idErrorResponse(res.err, MsgGetFailed)
               IN Outcome(a.status, a.msg, "GetTodoByID", res)
          ELSE Outcome(StatusOK, NoError, "GetTodoByID", res)

\* updateTodoHandler (PUT /todos/{id}) up to UpdateTodo's save.  "suspended"
\* tells that UpdateTodo goes on to save "todo"; otherwise the handler has
\* answered.
updateTodoHandler(t, clk, path, body, fault) ==
  LET p == PathID(path)
      d == DecodeUpdate(body)
      res == UpdateTodoLoad(t, clk, p.id, d.req, fault)
      answered(o) == o @@ [suspended |-> FALSE, todo |-> NoTodo]
  IN IF ~p.ok THEN answered(Rejected(StatusBadRequest, MsgInvalidID, t, clk))
     ELSE IF d.err.kind # "none"
          THEN LET a == updateDecodeResponse(d.err)
               IN answered(Rejected(a.status, a.msg, t, clk))
          ELSE IF res.err # NoError
               THEN LET a == idErrorResponse(res.err, MsgUpdateFailed)
                    IN answered(Outcome(a.status, a.msg, "UpdateTodo", res))
               ELSE IF ~res.updated
                    THEN answered(Outcome(StatusOK, NoError, "UpdateTodo", res))
                    ELSE Outcome(0, NoError, "UpdateTodo", res)
                           @@ [suspended |-> TRUE, todo |-> res.todo]

\* updateTodoHandler from UpdateTodo's save on.
updateTodoHandlerSave(t, clk, todo, fault, upsert) ==
  LET res == UpdateTodoSave(t, clk, todo, fault, upsert)
  IN IF res.err # NoError
     THEN LET a == idErrorResponse(res.err, MsgUpdateFailed)
          IN Outcome(a.status, a.msg, "UpdateTodo", res)
     ELSE Outcome(StatusOK, NoError, "UpdateTodo", res)

\* deleteTodoHandler (DELETE /todos/{id}) up to DeleteTodo's delete.
deleteTodoHandler(t, clk, path, fault) ==
  LET p == PathID(path)
      res == DeleteTodoCheck(t, clk, p.id, fault)
      answered(o) == o @@ [suspended |-> FALSE]
  IN IF ~p.ok THEN answered(Rejected(StatusBadRequest, MsgInvalidID, t, clk))
     ELSE IF res.err # NoError
          THEN LET a == idErrorResponse(res.err, MsgDeleteFailed)
               IN answered(Outcome(a.status, a.msg, "DeleteTodo", res))
          ELSE Outcome(0, NoError, "DeleteTodo", res) @@ [suspended |-> TRUE]

\* deleteTodoHandler from DeleteTodo's delete on.
deleteTodoHandlerDelete(t, clk, id, fault) ==
  LET res == DeleteTodoDelete(t, clk, id, fault)
  IN IF res.err # NoError
     THEN LET a == idErrorResponse(res.err, MsgDeleteFailed)
          IN Outcome(a.status, a.msg, "DeleteTodo", res)
     ELSE Outcome(StatusNoContent, NoError, "DeleteTodo", res)

\* ------------------------------------------------------------------- inputs
\* Path parameters a client may send.
Paths == {<<"1">>, <<"2">>, <<"0">>, <<"x">>, <<"-", "1">>}

TitleA == <<"a">>
TitleBlank == <<" ">>
TitleBuyMilk == <<"b", "u", "y", " ", "m", "i", "l", "k">>

\* Bodies of POST /todos.
PostBodies ==
  { Object(<<>>),
    Object(<<Member("title", JString(<<>>))>>),
    Object(<<Member("title", JString(TitleBlank))>>),
    Object(<<Member("title", JString(TitleBuyMilk))>>),
    Object(<<Member("title", JString(TitleA)), Member("user_id", JNumber(1))>>),
    Object(<<Member("title", JBool(TRUE))>>),
    Object(<<Member("title", JString(TitleA)), Member("completed", JBool(TRUE))>>),
    Malformed("syntax"), Malformed("eof"), Malformed("trunc"), Malformed("scalar") }

\* Bodies of PUT /todos/{id}: every combination of an absent or present
\* title and completed, and bodies the decoder refuses.
PutTitles == {<<>>, <<Member("title", JString(<<>>))>>, <<Member("title", JString(TitleA))>>}
PutCompleted == {<<>>, <<Member("completed", JBool(TRUE))>>,
                 <<Member("completed", JBool(FALSE))>>}

PutBodies ==
  {Object(a \o b) : a \in PutTitles, b \in PutCompleted}
    \cup { Object(<<Member("completed", JBool(TRUE)), Member("user_id", JNumber(1))>>),
           Object(<<Member("completed", JString(TitleA))>>),
           Malformed("syntax") }

NoBody == Malformed("eof")

\* -------------------------------------------------------------------- state
VARIABLES
  todos,      \* the todos table
  now,        \* the store clock
  pending,    \* per worker: the request it is in the middle of, if any
  resp,       \* the request being answered, with its response
  issued,     \* the identities returned by successful creates, in order
  deletedOK,  \* the identities whose DeleteTodo returned success
  lastOK,     \* per identity: what its last successful create/update returned
  scenario    \* how far the create-update-get-delete-get scenario has come

vars == <<todos, now, pending, resp, issued, deletedOK, lastOK, scenario>>

Ready == [pc |-> "ready", path |-> <<>>, body |-> NoBody, id |-> 0, todo |-> NoTodo]

\* The record of an answered request: the request, what the handler did
\* (Outcome), and the table as the handler's last step found it.
Exchange(method, path, body, o, before) ==
  [method |-> method, path |-> path, body |-> body, status |-> o.status,
   msg |-> o.msg, out |-> o.out, list |-> o.list, svc |-> o.svc,
   svcErr |-> o.svcErr, repoErr |-> o.repoErr, calls |-> o.calls,
   before |-> before]

NoExchange ==
  Exchange("none", <<>>, NoBody, Rejected(0, NoError, <<>>, 0), <<>>)

\* The end-to-end scenario on one todo: POST /todos {"title":"buy milk"}, PUT
\* /todos/{id} {"completed":true}, GET /todos/{id}, DELETE /todos/{id}, GET
\* /todos/{id}, each request served with no other request in flight, none
\* meeting a store fault and no other request naming the id in between.
\* "step" counts the requests of the scenario answered so far, "id" is the
\* identity the create returned and "title" the title it was given.
NoScenario == [step |-> 0, id |-> 0, title |-> <<>>]

BuyMilk == Object(<<Member("title", JString(TitleBuyMilk))>>)
MarkCompleted == Object(<<Member("completed", JBool(TRUE))>>)

ScenarioRequest(step) ==
  CASE step = 1 -> [method |-> "POST", body |-> BuyMilk]
    [] step = 2 -> [method |-> "PUT", body |-> MarkCompleted]
    [] step = 3 -> [method |-> "GET", body |-> NoBody]
    [] step = 4 -> [method |-> "DELETE", body |-> NoBody]
    [] step = 5 -> [method |-> "GET", body |-> NoBody]
    [] OTHER -> [method |-> "none", body |-> NoBody]

\* The scenario after the request (method, path, body) was answered with
\* outcome o, "overlap" telling that another request was in flight.
ScenarioAfter(s, method, path, body, o, overlap) ==
  LET faulty == o.repoErr = "store"
      next == ScenarioRequest(s.step + 1)
  IN IF overlap THEN NoScenario
     ELSE IF method = "POST" /\ body = BuyMilk
     THEN IF faulty \/ o.status # StatusCreated THEN NoScenario
          ELSE [step |-> 1, id |-> o.out.ID, title |-> TitleBuyMilk]
     ELSE IF s.step = 0 \/ method \in {"POST", "LIST"} THEN s
     ELSE IF ~PathID(path).ok \/ PathID(path).id # s.id THEN s
     ELSE IF method = next.method /\ body = next.body /\ ~faulty
          THEN [s EXCEPT !.step = s.step + 1]
          ELSE NoScenario

Init ==
  /\ todos = <<>>
  /\ now = 0
  /\ pending = [w \in Workers |-> Ready]
  /\ resp = NoExchange
  /\ issued = <<>>
  /\ deletedOK = {}
  /\ lastOK = <<>>
  /\ scenario = NoScenario

Fields(out) == [Title |-> out.Title, Completed |-> out.Completed, UserID |-> out.UserID]

\* A worker takes a new request when it is free; the workers being
\* interchangeable, the request goes to the first free one.  Under a
\* sequential load a request arrives only when no other is in flight.
Alone(w) == \A v \in Workers \ {w} : pending[v].pc = "ready"

Free(w, load) ==
  /\ resp = NoExchange
  /\ pending[w].pc = "ready"
  /\ \A v \in Workers : pending[v].pc = "ready" => v >= w
  /\ load.alone => Alone(w)

\* The handler of worker w answers: the store is as the outcome leaves it.
Answer(w, method, path, body, o) ==
  /\ o.now <= MaxClock
  /\ todos' = o.todos
  /\ now' = o.now
  /\ pending' = [pending EXCEPT ![w] = Ready]
  /\ resp' = Exchange(method, path, body, o, todos)
  /\ issued' = IF o.status = StatusCreated THEN Append(issued, o.out.ID) ELSE issued
  /\ deletedOK' = IF o.status = StatusNoContent
                  THEN deletedOK \cup {PathID(path).id} ELSE deletedOK
  /\ lastOK' = IF o.status = StatusCreated \/ (method = "PUT" /\ o.status = StatusOK)
               THEN (o.out.ID :> Fields(o.out)) @@ lastOK ELSE lastOK
  /\ scenario' = ScenarioAfter(scenario, method, path, body, o, ~Alone(w))

\* The handler of worker w suspends in its second repository call.
Suspend(w, pc, path, body, todo) ==
  /\ pending' = [pending EXCEPT ![w] =
                   [pc |-> pc, path |-> path, body |-> body,
                    id |-> PathID(path).id, todo |-> todo]]
  /\ scenario' = IF Alone(w) THEN scenario ELSE NoScenario
  /\ UNCHANGED <<todos, now, resp, issued, deletedOK, lastOK>>

PostTodo(w, load) ==
  /\ Free(w, load)
  /\ \E body \in load.postBodies, fault \in BOOLEAN :
       Answer(w, "POST", <<>>, body, createTodoHandler(todos, now, body, fault))

ListTodos(w, load) ==
  /\ Free(w, load)
  /\ \E fault \in BOOLEAN :
       Answer(w, "LIST", <<>>, NoBody, getAllTodosHandler(todos, now, fault))

GetTodo(w, load) ==
  /\ Free(w, load)
  /\ \E path \in load.paths, fault \in BOOLEAN :
       Answer(w, "GET", path, NoBody, getTodoByIDHandler(todos, now, path, fault))

PutTodo(w, load) ==
  /\ Free(w, load)
  /\ \E path \in load.paths, body \in load.putBodies, fault \in BOOLEAN :
       LET o == updateTodoHandler(todos, now, path, body, fault)
       IN IF o.suspended THEN Suspend(w, "save", path, body, o.todo)
          ELSE Answer(w, "PUT", path, body, o)

PutTodoSave(w) ==
  /\ resp = NoExchange
  /\ pending[w].pc = "save"
  /\ \E fault \in BOOLEAN, upsert \in BOOLEAN :
       Answer(w, "PUT", pending[w].path, pending[w].body,
              updateTodoHandlerSave(todos, now, pending[w].todo, fault, upsert))

DeleteTodo(w, load) ==
  /\ Free(w, load)
  /\ \E path \in load.paths, fault \in BOOLEAN :
       LET o == deleteTodoHandler(todos, now, path, fault)
       IN IF o.suspended THEN Suspend(w, "delete", path, NoBody, NoTodo)
          ELSE Answer(w, "DELETE", path, NoBody, o)

DeleteTodoFinish(w) ==
  /\ resp = NoExchange
  /\ pending[w].pc = "delete"
  /\ \E fault \in BOOLEAN :
       Answer(w, "DELETE", pending[w].path, NoBody,
              deleteTodoHandlerDelete(todos, now, pending[w].id, fault))

\* respondWithJSON: the answer is written out.  Writing it touches nothing
\* shared, so it is taken right after the step that produced the answer.
Respond ==
  /\ resp # NoExchange
  /\ resp' = NoExchange
  /\ UNCHANGED <<todos, now, pending, issued, deletedOK, lastOK, scenario>>

Step(w, load) ==
  \/ PostTodo(w, load)
  \/ ListTodos(w, load)
  \/ GetTodo(w, load)
  \/ PutTodo(w, load)
  \/ PutTodoSave(w)
  \/ DeleteTodo(w, load)
  \/ DeleteTodoFinish(w)

\* Requests are served concurrently.
Concurrent ==
  [alone |-> FALSE, paths |-> Paths, postBodies |-> PostBodies, putBodies |-> PutBodies]

Next ==
  \/ \E w \in Workers : Step(w, Concurrent)
  \/ Respond

Spec == Init /\ [][Next]_vars

\* Requests are served one after the other.
Sequential ==
  [alone |-> TRUE, paths |-> Paths, postBodies |-> PostBodies, putBodies |-> PutBodies]

SeqNext ==
  \/ \E w \in Workers : Step(w, Sequential)
  \/ Respond

SeqSpec == Init /\ [][SeqNext]_vars

\* ---------------------------------------------------------------- the claims
\* What a request asks for, read off the request itself.

\* The path parameter is the decimal numeral of a positive integer.
PositiveNumeral(path) ==
  /\ path # <<>>
  /\ \A i \in DOMAIN path : path[i] \in Digits
  /\ \E i \in DOMAIN path : path[i] # "0"

\* The JSON object carries the key, and its value (the last member wins).
HasKey(body, key) ==
  body.kind = "object" /\ \E i \in DOMAIN body.members : body.members[i].key = key

KeyValue(body, key) ==
  LET i == CHOOSE k \in DOMAIN body.members :
             /\ body.members[k].key = key
             /\ \A j \in DOMAIN body.members : body.members[j].key = key => j <= k
  IN body.members[i].val

\* The title a create request carries ("" when it carries none).
RequestTitle(body) ==
  IF HasKey(body, "title") /\ KeyValue(body, "title").t = "string"
  THEN KeyValue(body, "title").s ELSE <<>>

TitlePresent(body) == HasKey(body, "title") /\ KeyValue(body, "title").t = "string"
CompletedPresent(body) == HasKey(body, "completed") /\ KeyValue(body, "completed").t = "bool"

\* The unknown keys of an object body, the keys known being "known".
UnknownKeys(body, known) ==
  IF body.kind # "object" THEN {}
  ELSE {body.members[i].key : i \in DOMAIN body.members} \ known

\* A known key of the body carries a value of another JSON type.
TypeMismatch(body, types) ==
  /\ body.kind = "object"
  /\ \E i \in DOMAIN body.members :
       LET m == body.members[i]
       IN m.key \in DOMAIN types /\ m.val.t \notin {types[m.key], "null"}

UpdateTypes == [title |-> "string", completed |-> "bool"]
CreateTypes == [title |-> "string", user_id |-> "number"]

\* The identity the request's path names (0 when it names none).
RespID == IF PositiveNumeral(resp.path) THEN DecimalValue(resp.path) ELSE 0

Written == todos # resp.before

\* --- C1
\* C1 (as stated): CreateTodo with an empty or whitespace-only title answers
\* 400 with a validation error, never calls the repository's create and
\* leaves the store unchanged.
C1_BlankTitleRejected ==
  (resp.svc = "CreateTodo" /\ IsBlank(RequestTitle(resp.body)))
    => /\ resp.status = StatusBadRequest
       /\ resp.svcErr = ErrTitleEmpty
       /\ resp.calls = <<>>
       /\ ~Written

\* C1 (amended): CreateTodo with an empty title answers 400 with a
\* validation error, never calls the repository's create and leaves the
\* store unchanged; a title of whitespace only that is not empty is no
\* validation error: it reaches the repository's create and, unless the
\* store fails, is stored as given and answered 201.
C1_EmptyTitleRejected ==
  resp.svc = "CreateTodo" =>
    LET title == RequestTitle(resp.body)
    IN /\ title = <<>> =>
            /\ resp.status = StatusBadRequest
            /\ resp.svcErr = ErrTitleEmpty
            /\ resp.calls = <<>>
            /\ ~Written
       /\ (title # <<>> /\ IsBlank(title)) =>
            /\ resp.calls = <<"Create">>
            /\ resp.svcErr # ErrTitleEmpty
            /\ resp.repoErr = "none" =>
                 /\ resp.status = StatusCreated
                 /\ resp.out.Title = title
                 /\ todos[resp.out.ID].Title = title

C1_Witness ==
  /\ resp.svc = "CreateTodo"
  /\ HasKey(resp.body, "title")
  /\ RequestTitle(resp.body) = <<>>
  /\ resp.status = StatusBadRequest
  /\ DOMAIN todos # {}

\* --- C2
\* C2 (as stated): when the todo is deleted between UpdateTodo's load and its
\* save, the update answers 404 (and neither 500 nor 200) and the stored
\* data is left as it was; a save the store cannot serve at all is left out.
C2_VanishedIsNotFound ==
  (resp.method = "PUT" /\ resp.calls = <<"FindByID", "Update">>
     /\ ~Live(resp.before, RespID) /\ resp.repoErr # "store")
    => /\ resp.status = StatusNotFound
       /\ ~Written

C4_EmptyUpdateIsNoOp ==
  (resp.method = "PUT" /\ resp.svc = "UpdateTodo" /\ resp.body = Object(<<>>)) =>
    /\ resp.calls = <<"FindByID">>
    /\ ~Written
    /\ (Live(resp.before, RespID) /\ resp.repoErr # "store") =>
         /\ resp.status = StatusOK
         /\ resp.out = TodoResponse(todos[RespID])

C4_Witness ==
  /\ resp.method = "PUT" /\ resp.body = Object(<<>>)
  /\ resp.status = StatusOK
  /\ todos[RespID].UpdatedAt > todos[RespID].CreatedAt
  /\ resp.out.Completed

\* --- C5
\* C5: DeleteTodo on an identity with no live todo answers 404 (500 when the
\* existence check fails in the store); on a live todo it answers 204 unless
\* the store fails, and the todo is then gone, so that a second DeleteTodo
\* issued after the first answers 404.
C5_DeleteTwiceIsNotFound ==
  /\ \A id \in deletedOK : ~Live(todos, id)
  /\ (resp.method = "DELETE" /\ resp.svc = "DeleteTodo") =>
       /\ ~Live(resp.before, RespID) =>
            /\ resp.status = IF resp.repoErr = "store" THEN StatusInternalServerError
                             ELSE StatusNotFound
            /\ ~Written
       /\ (Live(resp.before, RespID) /\ resp.repoErr = "none") =>
            /\ resp.status = StatusNoContent
            /\ ~Live(todos, RespID)
            /\ RespID \in deletedOK

C5_Witness ==
  /\ resp.method = "DELETE" /\ resp.status = StatusNotFound
  /\ RespID \in deletedOK
  /\ RespID \in DOMAIN todos

\* --- C6
\* C6: for every identity with a live todo, GetTodoByID returns the title,
\* completed and user id that the last successful create or update of that
\* identity returned.
C6_GetReturnsLastWrite ==
  /\ \A id \in LiveIDs(todos) :
       /\ id \in DOMAIN lastOK
       /\ LET got == GetTodoByID(todos, now, id, FALSE)
          IN got.err = NoError /\ Fields(got.out) = lastOK[id]
  /\ (resp.method = "GET" /\ resp.status = StatusOK) =>
       /\ resp.out.ID = RespID
       /\ Fields(resp.out) = lastOK[RespID]

C6_Witness ==
  /\ resp.method = "GET" /\ resp.status = StatusOK
  /\ resp.out.Completed
  /\ resp.out.Title = TitleA
  /\ todos[RespID].CreatedAt < todos[RespID].UpdatedAt
  /\ deletedOK # {}

\* --- C7
\* C7: a successful CreateTodo returns completed false and an identity that
\* no todo of the table has, deleted ones included, and that no earlier
\* create returned.
NoRepeat(seq) == \A i, j \in DOMAIN seq : seq[i] = seq[j] => i = j

C7_CreatedIdentityIsFresh ==
  /\ NoRepeat(issued)
  /\ resp.status = StatusCreated =>
       /\ RequestTitle(resp.body) # <<>>
       /\ ~resp.out.Completed
       /\ ~todos[resp.out.ID].Completed
       /\ resp.out.ID \notin DOMAIN resp.before
       /\ resp.out.ID = issued[Len(issued)]

C7_Witness ==
  /\ resp.status = StatusCreated
  /\ Len(issued) >= 2
  /\ \E id \in deletedOK : id \in DOMAIN todos /\ ~Live(todos, id)

UndecodableUpdate(body) ==
  \/ body.kind = "syntax"
  \/ UnknownKeys(body, DOMAIN UpdateTypes) # {}
  \/ TypeMismatch(body, UpdateTypes)

C9_StatusFollowsErrorCategory ==
  resp.svc # "none" =>
    /\ resp.svcErr = ErrTitleEmpty => resp.status = StatusBadRequest
    /\ resp.repoErr = "notfound" => resp.status = StatusNotFound
    /\ resp.repoErr \in {"store", "conflict"} => resp.status = StatusInternalServerError
    /\ resp.status = StatusNotFound => resp.repoErr = "notfound"
    /\ resp.status = StatusInternalServerError => resp.repoErr \in {"store", "conflict"}
    /\ resp.svcErr = NoError <=> resp.status \in {StatusOK, StatusCreated, StatusNoContent}

C9_Witness ==
  /\ resp.method = "GET" /\ resp.svc = "GetTodoByID"
  /\ resp.repoErr = "notfound" /\ resp.status = StatusNotFound
  /\ RespID \in DOMAIN todos

\* --- C10
\* C10: GET, PUT and DELETE on /todos/{id} with a path id that is not the
\* numeral of a positive integer answer 400 without invoking the service:
\* no repository call is made and the store is unchanged.
C10_BadPathRejected ==
  (resp.method \in {"GET", "PUT", "DELETE"} /\ ~PositiveNumeral(resp.path)) =>
    /\ resp.status = StatusBadRequest
    /\ resp.msg = MsgInvalidID
    /\ resp.svc = "none"
    /\ resp.calls = <<>>
    /\ ~Written

C10_Witness ==
  /\ resp.method = "DELETE" /\ resp.path = <<"0">>
  /\ resp.status = StatusBadRequest
  /\ LiveIDs(todos) # {}

\* --- C11
\* C11: the scenario POST /todos {"title":"buy milk"}, PUT /todos/{id}
\* {"completed":true}, GET /todos/{id}, DELETE /todos/{id}, GET /todos/{id},
\* served one request after the other with no store fault and no other
\* request on the id, is answered in order 201 with completed false, 200
\* with completed true and the title unchanged, 200 with the updated todo,
\* 204, and 404.
C11_EndToEndScenario ==
  /\ (resp.method = "POST" /\ resp.body = BuyMilk /\ resp.repoErr # "store") =>
       /\ resp.status = StatusCreated
       /\ ~resp.out.Completed
       /\ resp.out.Title = TitleBuyMilk
       /\ scenario = [step |-> 1, id |-> resp.out.ID, title |-> TitleBuyMilk]
  /\ (resp.method \in {"GET", "PUT", "DELETE"} /\ PositiveNumeral(resp.path)
        /\ scenario.step >= 2 /\ RespID = scenario.id) =>
       /\ resp.method = ScenarioRequest(scenario.step).method
       /\ resp.body = ScenarioRequest(scenario.step).body
       /\ scenario.step = 2 =>
            /\ resp.status = StatusOK
            /\ resp.out.ID = scenario.id
            /\ resp.out.Completed
            /\ resp.out.Title = scenario.title
            /\ todos[scenario.id].Completed
            /\ todos[scenario.id].Title = scenario.title
       /\ scenario.step = 3 =>
            /\ resp.status = StatusOK
            /\ resp.out.ID = scenario.id
            /\ resp.out.Completed
            /\ resp.out.Title = scenario.title
       /\ scenario.step = 4 =>
            /\ resp.status = StatusNoContent
            /\ ~Live(todos, scenario.id)
       /\ scenario.step = 5 =>
            /\ resp.status = StatusNotFound
            /\ Contains(resp.msg, "not found")

C11_Witness ==
  /\ scenario.step = 5
  /\ resp.method = "GET" /\ RespID = scenario.id
  /\ resp.status = StatusNotFound
  /\ scenario.title = TitleBuyMilk

\* --- C12
\* C12: the stored completed flag of a todo changes only in an UpdateTodo
\* whose request has the completed field present: CreateTodo stores
\* completed false, and GetTodo, ListTodos, an UpdateTodo without a present
\* completed field and a failed operation never change the completed flag
\* of an existing todo.
C12_CompletedChangesOnlyOnRequest ==
  /\ resp.status = StatusCreated => ~todos[resp.out.ID].Completed
  /\ \A id \in LiveIDs(resp.before) :
       todos[id].Completed # resp.before[id].Completed =>
         /\ resp.svc = "UpdateTodo"
         /\ RespID = id
         /\ CompletedPresent(resp.body)
         /\ resp.svcErr = NoError

\* --- C13
\* C13: UpdateTodo on an existing todo calls the repository's update exactly
\* when the request is dirty: it carries a non-empty title that differs from
\* the current one or a completed that differs from the current one.  A
\* present but empty title is no error and never changes the title, a
\* present value equal to the current one triggers no save by itself, and
\* every other present and changed field of the request is applied and
\* saved.
TitleDirty(body, old) ==
  /\ TitlePresent(body)
  /\ KeyValue(body, "title").s # <<>>
  /\ KeyValue(body, "title").s # old.Title

CompletedDirty(body, old) ==
  CompletedPresent(body) /\ KeyValue(body, "completed").b # old.Completed

Dirty(body, old) == TitleDirty(body, old) \/ CompletedDirty(body, old)

\* The load of the update found a live todo.
UpdateLoaded ==
  /\ resp.svc = "UpdateTodo"
  /\ Live(resp.before, RespID)
  /\ ~(resp.calls = <<"FindByID">> /\ resp.repoErr = "store")

C13_SavedExactlyWhenDirty ==
  UpdateLoaded =>
    LET old == resp.before[RespID]
        row == todos[RespID]
        title == IF TitleDirty(resp.body, old) THEN KeyValue(resp.body, "title").s
                 ELSE old.Title
        completed == IF CompletedDirty(resp.body, old)
                     THEN KeyValue(resp.body, "completed").b ELSE old.Completed
    IN /\ resp.calls = IF Dirty(resp.body, old) THEN <<"FindByID", "Update">>
                       ELSE <<"FindByID">>
       /\ resp.status # StatusBadRequest
       /\ ~Dirty(resp.body, old) =>
            /\ ~Written
            /\ resp.status = StatusOK
            /\ resp.out = TodoResponse(old)
       /\ (Dirty(resp.body, old) /\ resp.repoErr = "none") =>
            /\ resp.status = StatusOK
            /\ row = [old EXCEPT !.Title = title, !.Completed = completed,
                                 !.UpdatedAt = row.UpdatedAt]
            /\ row.UpdatedAt > old.UpdatedAt
            /\ resp.out = TodoResponse(row)
       /\ (Dirty(resp.body, old) /\ resp.repoErr # "none") =>
            /\ resp.status = StatusInternalServerError
            /\ ~Written

C13_Witness ==
  /\ UpdateLoaded
  /\ TitlePresent(resp.body) /\ KeyValue(resp.body, "title").s = <<>>
  /\ CompletedDirty(resp.body, resp.before[RespID])
  /\ resp.calls = <<"FindByID", "Update">>
  /\ resp.status = StatusOK
  /\ todos[RespID].Title = resp.before[RespID].Title
  /\ todos[RespID].Completed # resp.before[RespID].Completed

\* --- C14
\* C14: once a DeleteTodo of an identity has returned success, the todo
\* stays deleted whatever UpdateTodo was in flight on it: every GetTodoByID
\* of the identity that starts afterwards returns not found, and
\* GetAllTodos never lists the identity again.
C14_DeletedStaysDeleted ==
  \A id \in deletedOK :
    /\ ~Live(todos, id)
    /\ (resp.svc = "GetTodoByID" /\ RespID = id /\ resp.repoErr # "store") =>
         resp.status = StatusNotFound
    /\ resp.svc = "GetAllTodos" => \A item \in resp.list : item.ID # id

\* --- C15
\* C15: a service operation that returns an error leaves the store as it
\* was: the repository call that failed wrote nothing, no todo is added,
\* removed or modified, and the load or existence check that came before it
\* wrote nothing either.
LoadWritesNothing ==
  (\E w \in Workers : pending[w].pc = "ready" /\ pending'[w].pc # "ready")
    => todos' = todos

FailureWritesNothing ==
  (resp.svc # "none" /\ resp.svcErr # NoError) =>
    /\ todos = resp.before
    /\ resp.repoErr # "none" \/ resp.svcErr = ErrTitleEmpty
    /\ resp.status \in {StatusBadRequest, StatusNotFound, StatusInternalServerError}

C15_ErrorLeavesStore == []FailureWritesNothing /\ [][LoadWritesNothing]_vars

C15_Witness ==
  /\ resp.svc = "UpdateTodo"
  /\ resp.calls = <<"FindByID", "Update">>
  /\ resp.svcErr = ErrUpdateFailed
  /\ resp.repoErr = "conflict"
  /\ ~Live(todos, RespID)
  /\ RespID \in deletedOK

====
